---- MODULE Spec2Model ----
(***************************************************************************)
(* A model of the ray tracer: the parallel render driver of main (row      *)
(* workers, the progress channel and thread, collection and printing),     *)
(* the recursive integrator ray_color, the intersection code               *)
(* (Sphere::hit, HitRecord::new, HittableList::hit), Metal::new and the    *)
(* per-sample image-plane coordinates.                                     *)
(*                                                                         *)
(* Numbers.  The f64 values of the geometry are modelled as exact reals:   *)
(* integers, rationals num/den, and quadratic surds x + y*sqrt(d) compared *)
(* by squaring, without rounding.  A division by zero is kept as a value   *)
(* with den = 0 (an infinity when num # 0, a NaN when num = 0).  The f64   *)
(* values of the colours are binary floating-point numbers of a small      *)
(* precision, and their product is rounded as the f64 product is.          *)
(***************************************************************************)
EXTENDS Integers, Sequences, FiniteSets, TLC

VARIABLES
    \* ---- render driver (main) ----
    image_width, image_height, samples_per_pixel, max_depth,
    rowSt, scanline, sent, order, chan, rxAlive, txAlive, stderr_ok,
    scanlines_remaining, received, shown, ppc,
    mpc, image, printed, stdout,
    \* ---- per-sample coordinates (the closure body of main) ----
    px_i, px_j, px_s, px_u, px_v, px_n,
    \* ---- ray_color ----
    rc_pc, rc_d0, rc_depth, rc_queries, rc_frames, rc_mat, rc_p, rc_result,
    rc_trace,
    \* ---- intersection ----
    h_ray, h_objects, h_tmin, h_tmax, h_k, h_hit, h_closest, h_call, h_built,
    h_pc,
    \* ---- materials ----
    m_args, m_made

renderVars == <<image_width, image_height, samples_per_pixel, max_depth,
                rowSt, scanline, sent, order, chan, rxAlive, txAlive, stderr_ok,
                scanlines_remaining, received, shown, ppc,
                mpc, image, printed, stdout>>
pixelVars == <<px_i, px_j, px_s, px_u, px_v, px_n>>
rayVars == <<rc_pc, rc_d0, rc_depth, rc_queries, rc_frames, rc_mat, rc_p,
             rc_result, rc_trace>>
hitVars == <<h_ray, h_objects, h_tmin, h_tmax, h_k, h_hit, h_closest, h_call,
             h_built, h_pc>>
matVars == <<m_args, m_made>>
vars == <<renderVars, pixelVars, rayVars, hitVars, matVars>>

(***************************************************************************)
(* Bounds of the model and constants of the program.                       *)
(***************************************************************************)
\* image_width is 1200 in main; the model renders MinWidth..MaxWidth columns.
MinWidth == 4
MaxWidth == 6
\* samples_per_pixel is 100 and max_depth 50 in main; the model's values.
ModelSamples == 2
ModelDepth == 3
\* The size of rayon's thread pool.
NumThreads == 2
\* aspect_ratio = 16.0 / 9.0
AspectNum == 16
AspectDen == 9
\* The maximum colour value of the PPM header.
MaxColor == 255

Abs(x) == IF x < 0 THEN -x ELSE x

Sgn(x) == IF x < 0 THEN -1 ELSE IF x > 0 THEN 1 ELSE 0

\* An `as i32` cast of the exact quotient n/d (d > 0): truncation toward zero.
TruncDiv(n, d) == IF n >= 0 THEN n \div d ELSE -((-n) \div d)

\* image_height = (image_width as f64 / aspect_ratio) as i32
ImageHeight(w) == TruncDiv(w * AspectDen, AspectNum)

\* The range 0..n of Rust (empty when n <= 0).
Range(n) == 0 .. (n - 1)

(***************************************************************************)
(* The render driver.                                                      *)
(***************************************************************************)
\* The inactive state of the other parts of the model.
PixelIdle == /\ px_i = 0 /\ px_j = 0 /\ px_s = 0 /\ px_n = 0
             /\ px_u = [num |-> 0, den |-> 1] /\ px_v = [num |-> 0, den |-> 1]

RayIdle == /\ rc_pc = "idle" /\ rc_d0 = 0 /\ rc_depth = 0 /\ rc_queries = 0
           /\ rc_frames = <<>> /\ rc_mat = "none" /\ rc_p = <<>>
           /\ rc_result = <<>> /\ rc_trace = <<>>

HitIdle == /\ h_ray = <<>> /\ h_objects = <<>> /\ h_tmin = <<>> /\ h_tmax = <<>>
           /\ h_k = 0 /\ h_hit = <<>> /\ h_closest = <<>> /\ h_call = <<>>
           /\ h_built = <<>> /\ h_pc = "idle"

MatIdle == /\ m_args = <<>> /\ m_made = <<>>

\* The state of main when the parallel iterator starts: the header is
\* printed, the channel is open, the progress thread is spawned.
RenderStart(w, spp, depth) ==
    /\ image_width = w
    /\ image_height = ImageHeight(w)
    /\ samples_per_pixel = spp
    /\ max_depth = depth
    /\ rowSt = [j \in Range(ImageHeight(w)) |-> "pending"]
    /\ scanline = [j \in Range(ImageHeight(w)) |-> <<>>]
    /\ sent = [j \in Range(ImageHeight(w)) |-> 0]
    /\ order = <<>>
    /\ chan = <<>>
    /\ rxAlive = TRUE
    /\ txAlive = TRUE
    /\ stderr_ok = TRUE
    /\ scanlines_remaining = ImageHeight(w)
    /\ received = 0
    /\ shown = <<>>
    /\ ppc = "loop"
    /\ mpc = "render"
    /\ image = <<>>
    /\ printed = 0
    /\ stdout = << <<"P3", w, ImageHeight(w), MaxColor>> >>

Init ==
    /\ \E w \in MinWidth .. MaxWidth : RenderStart(w, ModelSamples, ModelDepth)
    /\ PixelIdle /\ RayIdle /\ HitIdle /\ MatIdle

Rows == DOMAIN rowSt

\* The render driver leaves the other parts of the model alone.
RenderOnly == UNCHANGED <<pixelVars, rayVars, hitVars, matVars>>

Active == {j \in Rows : rowSt[j] \in {"running", "computed"}}

\* A pool thread takes a row of the parallel iterator.
StartRow(j) ==
    /\ mpc = "render"
    /\ rowSt[j] = "pending"
    /\ Cardinality(Active) < NumThreads
    /\ rowSt' = [rowSt EXCEPT ![j] = "running"]
    /\ UNCHANGED <<image_width, image_height, samples_per_pixel, max_depth,
                   scanline, sent, order, chan, rxAlive, txAlive, stderr_ok,
                   scanlines_remaining, received, shown, ppc,
                   mpc, image, printed, stdout>>
    /\ RenderOnly

\* The pixels of row j: for each column the sum of samples_per_pixel samples.
Scanline(j) ==
    [c \in 1 .. (IF image_width > 0 THEN image_width ELSE 0) |->
        [i |-> c - 1, j |-> j,
         samples |-> IF samples_per_pixel > 0 THEN samples_per_pixel ELSE 0]]

\* The closure computes the scanline of row j.
ComputeRow(j) ==
    /\ mpc = "render"
    /\ rowSt[j] = "running"
    /\ rowSt' = [rowSt EXCEPT ![j] = "computed"]
    /\ scanline' = [scanline EXCEPT ![j] = Scanline(j)]
    /\ UNCHANGED <<image_width, image_height, samples_per_pixel, max_depth,
                   sent, order, chan, rxAlive, txAlive, stderr_ok,
                   scanlines_remaining, received, shown, ppc,
                   mpc, image, printed, stdout>>
    /\ RenderOnly

\* A row that sends its notification twice.
NotificationsTwice(j) == <<1, 1>>

\* The notifications row j sends once its scanline is computed.
Notifications(j) == <<1>>

\* A send whose result is not looked at.
SendUnchecked == TRUE

\* s.send(1) is Ok while the receiver lives and an error once it is dropped.
SendOk == rxAlive

\* s.send(1).unwrap(), then the closure returns the scanline.  A send on a
\* channel whose receiver is gone is an error, and unwrap panics.
SendRow(j) ==
    /\ mpc = "render"
    /\ rowSt[j] = "computed"
    /\ IF SendOk
       THEN /\ chan' = chan \o Notifications(j)
            /\ sent' = [sent EXCEPT ![j] = @ + Len(Notifications(j))]
            /\ rowSt' = [rowSt EXCEPT ![j] = "done"]
            /\ order' = Append(order, j)
       ELSE /\ rowSt' = [rowSt EXCEPT ![j] = "panicked"]
            /\ UNCHANGED <<chan, sent, order>>
    /\ UNCHANGED <<image_width, image_height, samples_per_pixel, max_depth,
                   scanline, rxAlive, txAlive, stderr_ok,
                   scanlines_remaining, received, shown, ppc,
                   mpc, image, printed, stdout>>
    /\ RenderOnly

\* The progress thread is running (not returned, panicked or killed).
ProgressLive == ppc = "loop"

\* One iteration of the progress loop: recv().unwrap(), the decrement, the
\* eprint! and the flush.  recv blocks while the channel is empty and a
\* sender lives; it is an error once the channel is empty and disconnected.
ProgressRecv ==
    /\ ProgressLive
    /\ scanlines_remaining > 0
    /\ chan # <<>> \/ ~txAlive
    /\ IF chan = <<>>
       THEN /\ ppc' = "panicked"
            /\ rxAlive' = FALSE
            /\ UNCHANGED <<chan, scanlines_remaining, received, shown>>
       ELSE /\ chan' = Tail(chan)
            /\ received' = received + 1
            /\ scanlines_remaining' = scanlines_remaining - 1
            /\ IF stderr_ok
               THEN /\ shown' = <<scanlines_remaining - 1>>
                    /\ UNCHANGED <<ppc, rxAlive>>
               ELSE /\ ppc' = "panicked"
                    /\ rxAlive' = FALSE
                    /\ UNCHANGED shown
    /\ UNCHANGED <<image_width, image_height, samples_per_pixel, max_depth,
                   rowSt, scanline, sent, order, txAlive, stderr_ok,
                   mpc, image, printed, stdout>>
    /\ RenderOnly

\* The loop condition fails: the thread's closure returns, dropping recv.
ProgressExit ==
    /\ ProgressLive
    /\ ~(scanlines_remaining > 0)
    /\ ppc' = "exited"
    /\ rxAlive' = FALSE
    /\ UNCHANGED <<image_width, image_height, samples_per_pixel, max_depth,
                   rowSt, scanline, sent, order, chan, txAlive, stderr_ok,
                   scanlines_remaining, received, shown,
                   mpc, image, printed, stdout>>
    /\ RenderOnly

\* The rows in ascending order: the iterator without rev().
RowOrderForward == [k \in 1 .. Cardinality(Rows) |-> k - 1]

\* The rows in the order of the iterator: (0..image_height).rev().
RowOrder == [k \in 1 .. Cardinality(Rows) |-> Cardinality(Rows) - k]

\* collect() returns once every row's closure has returned, with the
\* scanlines in the iterator's order; a panic of a closure is propagated to
\* main.  The senders are dropped with the iterator.  Then "Printing..." is
\* written to stderr.
Collect ==
    /\ mpc = "render"
    /\ Active = {}
    /\ \/ \A j \in Rows : rowSt[j] = "done"
       \/ \E j \in Rows : rowSt[j] = "panicked"
    /\ txAlive' = FALSE
    /\ IF (\E j \in Rows : rowSt[j] = "panicked") \/ ~stderr_ok
       THEN /\ mpc' = "panicked"
            /\ ppc' = IF ProgressLive THEN "killed" ELSE ppc
            /\ UNCHANGED image
       ELSE /\ mpc' = "printing"
            /\ image' = [k \in DOMAIN RowOrder |-> scanline[RowOrder[k]]]
            /\ UNCHANGED ppc
    /\ UNCHANGED <<image_width, image_height, samples_per_pixel, max_depth,
                   rowSt, scanline, sent, order, chan, rxAlive, stderr_ok,
                   scanlines_remaining, received, shown, printed, stdout>>
    /\ RenderOnly

\* One step of image.iter().for_each: the pixels of the next scanline.
PrintRow ==
    /\ mpc = "printing"
    /\ printed < Len(image)
    /\ stdout' = stdout \o image[printed + 1]
    /\ printed' = printed + 1
    /\ UNCHANGED <<image_width, image_height, samples_per_pixel, max_depth,
                   rowSt, scanline, sent, order, chan, rxAlive, txAlive, stderr_ok,
                   scanlines_remaining, received, shown, ppc, mpc, image>>
    /\ RenderOnly

\* main writes "Done." and returns: the process exits, which ends the
\* progress thread wherever it is (it is never joined).
MainDone ==
    /\ mpc = "printing"
    /\ printed = Len(image)
    /\ mpc' = IF stderr_ok THEN "done" ELSE "panicked"
    /\ ppc' = IF ProgressLive THEN "killed" ELSE ppc
    /\ UNCHANGED <<image_width, image_height, samples_per_pixel, max_depth,
                   rowSt, scanline, sent, order, chan, rxAlive, txAlive, stderr_ok,
                   scanlines_remaining, received, shown, image, printed, stdout>>
    /\ RenderOnly

Next ==
    \/ \E j \in Rows : StartRow(j)
    \/ \E j \in Rows : ComputeRow(j)
    \/ \E j \in Rows : SendRow(j)
    \/ ProgressRecv
    \/ ProgressExit
    \/ Collect
    \/ PrintRow
    \/ MainDone

Spec == Init /\ [][Next]_vars

(***************************************************************************)
(* The render under fair scheduling: every thread that can take a step     *)
(* eventually takes it.                                                    *)
(***************************************************************************)
Fairness ==
    /\ \A j \in 0 .. MaxWidth : WF_vars(j \in Rows /\ StartRow(j))
    /\ \A j \in 0 .. MaxWidth : WF_vars(j \in Rows /\ ComputeRow(j))
    /\ \A j \in 0 .. MaxWidth : WF_vars(j \in Rows /\ SendRow(j))
    /\ WF_vars(ProgressRecv)
    /\ WF_vars(ProgressExit)
    /\ WF_vars(Collect)
    /\ WF_vars(PrintRow)
    /\ WF_vars(MainDone)

SpecFair == Init /\ [][Next]_vars /\ Fairness

(***************************************************************************)
(* The render with a standard error stream that can fail: its reader may   *)
(* close it at any moment of the run, after which every write to it is an  *)
(* error, and eprint! and flush().unwrap() panic.  The threads are         *)
(* scheduled fairly; the reader is not obliged to do anything.             *)
(***************************************************************************)
StderrFails ==
    /\ mpc \in {"render", "printing"}
    /\ stderr_ok
    /\ stderr_ok' = FALSE
    /\ UNCHANGED <<image_width, image_height, samples_per_pixel, max_depth,
                   rowSt, scanline, sent, order, chan, rxAlive, txAlive,
                   scanlines_remaining, received, shown, ppc,
                   mpc, image, printed, stdout>>
    /\ RenderOnly

NextStderr ==
    \/ \E j \in Rows : StartRow(j)
    \/ \E j \in Rows : ComputeRow(j)
    \/ \E j \in Rows : SendRow(j)
    \/ ProgressRecv
    \/ ProgressExit
    \/ Collect
    \/ PrintRow
    \/ MainDone
    \/ StderrFails

SpecStderr == Init /\ [][NextStderr]_vars /\ Fairness

(***************************************************************************)
(* The render with its parameters as arguments: main takes them from       *)
(* literals; here any small value, zero and negative ones included, is     *)
(* given.                                                                  *)
(***************************************************************************)
InitParams ==
    /\ \E w \in -2 .. MaxWidth, spp \in 0 .. 1, depth \in 0 .. 1 :
          RenderStart(w, spp, depth)
    /\ PixelIdle /\ RayIdle /\ HitIdle /\ MatIdle

SpecParams == InitParams /\ [][Next]_vars

(***************************************************************************)
(* The samples of one row: the body of the row closure of main.  A random  *)
(* value of random_f64, in [0,1), is k/JitterDen with 0 <= k < JitterDen.  *)
(***************************************************************************)
JitterDen == 2

Jitter == 0 .. (JitterDen - 1)

\* The f64 quotient (n / JitterDen) / d as a fraction; den = 0 is the
\* result of a division by zero.
Coordinate(n, d) == [num |-> n, den |-> d * JitterDen]

\* The closure is entered for row j of an image of w columns.
InitPixel ==
    /\ \E w \in MinWidth .. MaxWidth : RenderStart(w, ModelSamples, ModelDepth)
    /\ px_j \in Range(image_height)
    /\ px_i = 0 /\ px_s = 0 /\ px_n = 0
    /\ px_u = [num |-> 0, den |-> 1] /\ px_v = [num |-> 0, den |-> 1]
    /\ RayIdle /\ HitIdle /\ MatIdle

\* One sample: u and v are computed from the pixel and two random values
\* and passed to camera.get_ray; the colour of the ray is added.
Sample ==
    /\ px_i < image_width
    /\ px_s < samples_per_pixel
    /\ \E ru \in Jitter, rv \in Jitter :
          /\ px_u' = Coordinate(px_i * JitterDen + ru, image_width - 1)
          /\ px_v' = Coordinate(px_j * JitterDen + rv, image_height - 1)
    /\ px_s' = px_s + 1
    /\ px_n' = px_n + 1
    /\ UNCHANGED <<px_i, px_j>>
    /\ UNCHANGED <<renderVars, rayVars, hitVars, matVars>>

\* The samples of a pixel are done: the next column.
NextPixel ==
    /\ px_i < image_width
    /\ ~(px_s < samples_per_pixel)
    /\ px_i' = px_i + 1
    /\ px_s' = 0
    /\ px_n' = 0
    /\ UNCHANGED <<px_j, px_u, px_v>>
    /\ UNCHANGED <<renderVars, rayVars, hitVars, matVars>>

NextPixelSpec ==
    \/ Sample
    \/ NextPixel

SpecPixel == InitPixel /\ [][NextPixelSpec]_vars

\* C10: the coordinates (u, v) of every sample, as passed to
\* Camera::get_ray, both lie in [0,1].
C10_CoordinatesInUnitSquare ==
    px_s > 0 =>
        /\ px_u.den > 0 /\ 0 <= px_u.num /\ px_u.num <= px_u.den
        /\ px_v.den > 0 /\ 0 <= px_v.num /\ px_v.num <= px_v.den

(***************************************************************************)
(* The constructors of the materials.  A fuzz, albedo channel or           *)
(* refraction index x is the integer x * Unit.                             *)
(***************************************************************************)
Unit == 10

MaxFuzz == 20

\* The arguments of a constructor call.
InitMaterial ==
    /\ m_args \in [albedo : 0 .. 2, fuzz : (-MaxFuzz) .. MaxFuzz, ref_idx : {15}]
    /\ m_made = <<>>
    /\ \E w \in {MinWidth} : RenderStart(w, ModelSamples, ModelDepth)
    /\ PixelIdle /\ RayIdle /\ HitIdle

LambertianNew ==
    /\ m_made = <<>>
    /\ m_made' = <<[kind |-> "Lambertian", albedo |-> m_args.albedo]>>
    /\ UNCHANGED <<m_args, renderVars, pixelVars, rayVars, hitVars>>

\* fuzz: if fuzz < 1.0 { fuzz } else { 1.0 }
MetalFuzz(fuzz) == IF fuzz < 1 * Unit THEN fuzz ELSE 1 * Unit

MetalNew ==
    /\ m_made = <<>>
    /\ m_made' = <<[kind |-> "Metal", albedo |-> m_args.albedo,
                    fuzz |-> MetalFuzz(m_args.fuzz)]>>
    /\ UNCHANGED <<m_args, renderVars, pixelVars, rayVars, hitVars>>

DielectricNew ==
    /\ m_made = <<>>
    /\ m_made' = <<[kind |-> "Dielectric", ref_idx |-> m_args.ref_idx]>>
    /\ UNCHANGED <<m_args, renderVars, pixelVars, rayVars, hitVars>>

NextMaterial ==
    \/ LambertianNew
    \/ MetalNew
    \/ DielectricNew

SpecMaterial == InitMaterial /\ [][NextMaterial]_vars

\* C9: the fuzz stored in a constructed Metal lies in [0,1], whatever fuzz
\* was passed to Metal::new, negative values and values above 1 included.
C9_FuzzClamped ==
    \A k \in DOMAIN m_made :
        m_made[k].kind = "Metal" =>
            0 <= m_made[k].fuzz /\ m_made[k].fuzz <= 1 * Unit

(***************************************************************************)
(* ray_color.  The scene and the geometry of a bounce are arbitrary: the   *)
(* outcome of world.hit (a miss, or a hit of a surface of some material)   *)
(* and the sign test of Metal::scatter are free choices.  A colour is one  *)
(* channel, a binary floating-point number num/den: den is a power of 2    *)
(* and num, in lowest terms, has at most Precision bits (53 for an f64;    *)
(* the range of the exponent is not limited).  The recursion is a stack of *)
(* the attenuations whose multiplication is pending.                       *)
(***************************************************************************)
Precision == 3

Color(n, d) == [num |-> n, den |-> d]

\* Color::new(0.0, 0.0, 0.0)
Black == Color(0, 1)

\* Color::new(1.0, 1.0, 1.0)
White == Color(1, 1)

RECURSIVE Pow2(_)
Pow2(k) == IF k <= 0 THEN 1 ELSE 2 * Pow2(k - 1)

\* The number of low bits of n that do not fit in Precision bits.
RECURSIVE Excess(_)
Excess(n) == IF n < Pow2(Precision) THEN 0 ELSE 1 + Excess(n \div 2)

\* n rounded to Precision significant bits, to nearest, ties to even.
RoundToPrecision(n) ==
    LET unit == Pow2(Excess(n))
        q == n \div unit
        r == n % unit
    IN  (IF 2 * r > unit \/ (2 * r = unit /\ q % 2 = 1) THEN q + 1 ELSE q) * unit

\* n/d in lowest terms (d is a power of 2).
RECURSIVE Reduce(_, _)
Reduce(n, d) ==
    IF n = 0 THEN Color(0, 1)
    ELSE IF n % 2 = 0 /\ d % 2 = 0 THEN Reduce(n \div 2, d \div 2)
    ELSE Color(n, d)

\* Color * Color: the f64 product of a channel, correctly rounded.
ColorMul(a, b) == Reduce(RoundToPrecision(a.num * b.num), a.den * b.den)

IsBlack(c) == c.num = 0

\* The albedos of the scene's materials.
Albedos == {Color(5, 8), Color(3, 4), Color(1, 1)}

\* Values of the background gradient (1.0 - t) * white + t * blue.
Gradient == {Color(7, 8), Color(1, 2)}

\* A coordinate of Vec3::random_range(-1.0, 1.0): -1 + 2 * k/JitterDen, as
\* a numerator over JitterDen.
UnitRange == {2 * k - JitterDen : k \in Jitter}

\* p.length_squared() >= 1.0
OutsideUnitSphere(p) ==
    p[1] * p[1] + p[2] * p[2] + p[3] * p[3] >= JitterDen * JitterDen

InitRay ==
    /\ rc_d0 \in -1 .. ModelDepth
    /\ rc_depth = rc_d0
    /\ rc_pc = "call"
    /\ rc_queries = 0
    /\ rc_frames = <<>>
    /\ rc_mat = "none"
    /\ rc_p = <<>>
    /\ rc_result = <<>>
    /\ rc_trace = <<>>
    /\ \E w \in {MinWidth} : RenderStart(w, ModelSamples, ModelDepth)
    /\ PixelIdle /\ HitIdle /\ MatIdle

RayOnly == UNCHANGED <<renderVars, pixelVars, hitVars, matVars>>

\* A bounce limit that lets a ray of depth 0 through.
DepthExceededStrict(depth) == depth < 0

\* if depth <= 0
DepthExceeded(depth) == depth <= 0

\* ray_color is entered: the bounce limit.
RayEnter ==
    /\ rc_pc = "call"
    /\ IF DepthExceeded(rc_depth)
       THEN /\ rc_result' = <<Black>>
            /\ rc_pc' = "return"
       ELSE /\ rc_pc' = "hit"
            /\ UNCHANGED rc_result
    /\ UNCHANGED <<rc_d0, rc_depth, rc_queries, rc_frames, rc_mat, rc_p,
                   rc_trace>>
    /\ RayOnly

\* What a bounce came to, for the record of the run: a miss with the value
\* of the gradient, an absorption, or a scattering with its attenuation.
Outcome(kind, color) == [kind |-> kind, color |-> color]

\* world.hit(r, 0.001, INFINITY): a miss returns the background gradient.
RayHit ==
    /\ rc_pc = "hit"
    /\ rc_queries' = rc_queries + 1
    /\ \E m \in {"none", "Lambertian", "Metal", "Dielectric"} :
          IF m = "none"
          THEN /\ \E g \in Gradient :
                    /\ rc_result' = <<g>>
                    /\ rc_trace' = Append(rc_trace, Outcome("miss", g))
               /\ rc_pc' = "return"
               /\ UNCHANGED rc_mat
          ELSE /\ rc_mat' = m
               /\ rc_pc' = "scatter"
               /\ UNCHANGED <<rc_result, rc_trace>>
    /\ UNCHANGED <<rc_d0, rc_depth, rc_frames, rc_p>>
    /\ RayOnly

\* Some((attenuation, scattered)): attenuation * ray_color(&scattered,
\* world, depth - 1).
Recurse(attenuation) ==
    /\ rc_frames' = Append(rc_frames, attenuation)
    /\ rc_depth' = rc_depth - 1
    /\ rc_pc' = "call"
    /\ rc_trace' = Append(rc_trace, Outcome("scatter", attenuation))
    /\ UNCHANGED rc_result

\* None: the ray is absorbed.
Absorb ==
    /\ rc_result' = <<Black>>
    /\ rc_pc' = "return"
    /\ rc_trace' = Append(rc_trace, Outcome("absorb", Black))
    /\ UNCHANGED <<rc_frames, rc_depth>>

\* rec.material.scatter(r, &rec) of a Lambertian or a Dielectric, which
\* always scatter; a Metal first draws from random_in_unit_sphere.
RayScatter ==
    /\ rc_pc = "scatter"
    /\ CASE rc_mat = "Lambertian" -> \E a \in Albedos : Recurse(a)
         [] rc_mat = "Dielectric" -> Recurse(White)
         [] OTHER -> /\ rc_pc' = "sample"
                     /\ UNCHANGED <<rc_frames, rc_depth, rc_result, rc_trace>>
    /\ UNCHANGED <<rc_d0, rc_queries, rc_mat, rc_p>>
    /\ RayOnly

\* One iteration of the loop of Vec3::random_in_unit_sphere, and when the
\* point is accepted the rest of Metal::scatter: the ray is scattered when
\* dot(scattered.direction, rec.normal) > 0 and absorbed otherwise.
RaySample ==
    /\ rc_pc = "sample"
    /\ \E p \in UnitRange \X UnitRange \X UnitRange :
          /\ rc_p' = p
          /\ IF OutsideUnitSphere(p)
             THEN UNCHANGED <<rc_pc, rc_frames, rc_depth, rc_result, rc_trace>>
             ELSE \E outward \in BOOLEAN :
                    IF outward THEN \E a \in Albedos : Recurse(a) ELSE Absorb
    /\ UNCHANGED <<rc_d0, rc_queries, rc_mat>>
    /\ RayOnly

\* A call returns: its result is multiplied by the caller's attenuation.
RayReturn ==
    /\ rc_pc = "return"
    /\ IF rc_frames = <<>>
       THEN /\ rc_pc' = "done"
            /\ UNCHANGED <<rc_frames, rc_result, rc_depth>>
       ELSE /\ rc_result' = <<ColorMul(rc_frames[Len(rc_frames)], rc_result[1])>>
            /\ rc_frames' = SubSeq(rc_frames, 1, Len(rc_frames) - 1)
            /\ rc_depth' = rc_depth + 1
            /\ UNCHANGED rc_pc
    /\ UNCHANGED <<rc_d0, rc_queries, rc_mat, rc_p, rc_trace>>
    /\ RayOnly

NextRay ==
    \/ RayEnter
    \/ RayHit
    \/ RayScatter
    \/ RaySample
    \/ RayReturn

\* The thread running ray_color keeps running.
SpecRay == InitRay /\ [][NextRay]_vars /\ WF_vars(NextRay)

\* With depth <= 0 black is returned without a query of the scene; with
\* depth d > 0 at most d queries are made, by nested calls of depth d,
\* d-1, ..., 1.
RayBounded ==
    /\ rc_queries <= (IF rc_d0 > 0 THEN rc_d0 ELSE 0)
    /\ rc_depth = rc_d0 - Len(rc_frames)
    /\ rc_pc \in {"hit", "scatter", "sample"} =>
          rc_depth >= 1 /\ rc_queries <= Len(rc_frames) + 1
    /\ (rc_pc = "done" /\ rc_d0 <= 0) =>
          rc_queries = 0 /\ IsBlack(rc_result[1])

\* C4 as stated: ray_color always terminates, with at most d queries of
\* the scene (none and black for d <= 0), whatever the outcomes of hit and
\* scatter.
C4_AlwaysTerminates == []RayBounded /\ <>(rc_pc = "done")

\* C4 amended: the bound on the queries holds always, and ray_color
\* terminates unless the rejection loop of random_in_unit_sphere, entered
\* from Metal::scatter, rejects its draws for ever.
C4_TerminatesUnlessRejecting ==
    []RayBounded /\ (<>(rc_pc = "done") \/ <>[](rc_pc = "sample"))

\* C4 witness: a call with the largest depth has ended having made as many
\* queries as its depth, the last one from the rejection loop of a Metal.
C4_Witness ==
    /\ rc_pc = "done"
    /\ rc_d0 = ModelDepth
    /\ rc_queries = rc_d0
    /\ rc_p # <<>>

\* The explicit loop, run on the outcomes of the bounces: a state of the
\* loop is the number k of outcomes used, the accumulated attenuation and
\* the number n of iterations left.
RECURSIVE LoopColor(_, _, _, _)
LoopColor(outcomes, k, accumulated, n) ==
    IF n <= 0 \/ k >= Len(outcomes) THEN Black
    ELSE LET o == outcomes[k + 1]
         IN  CASE o.kind = "miss" -> ColorMul(accumulated, o.color)
               [] o.kind = "absorb" -> Black
               [] OTHER -> LoopColor(outcomes, k + 1,
                                     ColorMul(accumulated, o.color), n - 1)

\* The result of the loop started with white and a budget of depth
\* iterations.
LoopResult == LoopColor(rc_trace, 0, White, rc_d0)

\* The scatterings of the run.
Scatterings == {k \in DOMAIN rc_trace : rc_trace[k].kind = "scatter"}

\* The run ended in a miss.
EndedInMiss == rc_trace # <<>> /\ rc_trace[Len(rc_trace)].kind = "miss"

RECURSIVE Power(_, _)
Power(x, n) == IF n <= 0 THEN 1 ELSE x * Power(x, n - 1)

\* The colours a and b are within n roundings of each other: each rounded
\* product is within a factor 1 - u .. 1 + u of the exact one, u being
\* 2^-Precision, so a/b lies between ((1-u)/(1+u))^n and its inverse.
WithinRoundings(a, b, n) ==
    LET lo == Power(Pow2(Precision) - 1, n)
        hi == Power(Pow2(Precision) + 1, n)
    IN  /\ a.num * b.den * lo <= b.num * a.den * hi
        /\ b.num * a.den * lo <= a.num * b.den * hi

\* C12 as stated: the result of ray_color is the result of the loop on the
\* same outcomes of hit and scatter.
C12_SameAsLoop == rc_pc = "done" => rc_result[1] = LoopResult

\* C12 amended: ray_color and the loop use the same outcomes up to the same
\* point; both give black when the depth is exhausted or the ray absorbed;
\* on a miss after at most one scattering they give the same colour; on a
\* miss after n >= 2 scatterings they multiply the same factors in a
\* different order and agree to within n roundings of the product.
C12_SameUpToRounding ==
    rc_pc = "done" =>
        /\ Cardinality(Scatterings) <= (IF rc_d0 > 0 THEN rc_d0 ELSE 0)
        /\ \A k \in DOMAIN rc_trace : k < Len(rc_trace) => k \in Scatterings
        /\ ~EndedInMiss => rc_result[1] = Black /\ LoopResult = Black
        /\ EndedInMiss =>
              /\ Cardinality(Scatterings) < rc_d0
              /\ WithinRoundings(rc_result[1], LoopResult, Cardinality(Scatterings))
              /\ ~IsBlack(rc_result[1]) /\ ~IsBlack(LoopResult)
        /\ Cardinality(Scatterings) <= 1 => rc_result[1] = LoopResult

\* C12 witness: a call of depth ModelDepth has ended in a miss after two
\* scatterings, and its result and the loop's differ in the last place.
C12_Witness ==
    /\ rc_pc = "done"
    /\ rc_d0 = ModelDepth
    /\ EndedInMiss
    /\ Cardinality(Scatterings) = 2
    /\ rc_result[1] # LoopResult
    /\ WithinRoundings(rc_result[1], LoopResult, 2)

(***************************************************************************)
(* Exact arithmetic for the intersection code.  A scalar is                *)
(* (x + y*sqrt(d)) / q with integers x, y, d >= 0 and q; q = 0 is the      *)
(* result of a division by zero, and Infinity is 1/0.  A vector is three   *)
(* such scalars over one d and one q.  A point or direction given to the   *)
(* code is a triple of integers.                                           *)
(***************************************************************************)
Scalar(x, y, d, q) == [x |-> x, y |-> y, d |-> d, q |-> q]

Rational(n, q) == Scalar(n, 0, 0, q)

\* f64::INFINITY
Infinity == Rational(1, 0)

IsInfinity(s) == s.q = 0

\* f64::sqrt of an integer
Sqrt(n) == Scalar(0, 1, n, 1)

\* The sign of x + y*sqrt(d).
SignSurd(x, y, d) == Sgn(x * Abs(x) + y * Abs(y) * d)

\* The sign of n + a*sqrt(d1) + b*sqrt(d2).
SignSum(n, a, d1, b, d2) ==
    LET sU == Sgn(a * Abs(a) * d1 + b * Abs(b) * d2)
    IN  SignSurd(n * Abs(n) + sU * (a * a * d1 + b * b * d2),
                 2 * sU * a * b, d1 * d2)

\* The sign of s - t, for finite s and t.
Compare(s, t) ==
    SignSum(s.x * t.q - t.x * s.q, s.y * t.q, s.d, -(t.y * s.q), t.d)
        * Sgn(s.q) * Sgn(t.q)

\* s < t
Less(s, t) ==
    IF IsInfinity(s) THEN FALSE
    ELSE IF IsInfinity(t) THEN TRUE
    ELSE Compare(s, t) < 0

\* The sign of a finite scalar.
Sign(s) == SignSurd(s.x, s.y, s.d) * Sgn(s.q)

\* (n + s) / k for integers n and k
AddDiv(n, s, k) == Scalar(n * s.q + s.x, s.y, s.d, s.q * k)

\* -s
Negate(s) == [s EXCEPT !.x = -s.x, !.y = -s.y]

\* Vec3::dot of two integer vectors, and Vec3::length_squared
IDot(u, v) == u[1] * v[1] + u[2] * v[2] + u[3] * v[3]

ISub(u, v) == <<u[1] - v[1], u[2] - v[2], u[3] - v[3]>>

Vector(x, y, d, q) == [x |-> x, y |-> y, d |-> d, q |-> q]

\* An integer vector as a vector.
IVector(v) == Vector(v, <<0, 0, 0>>, 0, 1)

\* Ray::at: origin + t * direction
At(r, t) ==
    Vector([k \in 1 .. 3 |-> r.origin[k] * t.q + t.x * r.direction[k]],
           [k \in 1 .. 3 |-> t.y * r.direction[k]], t.d, t.q)

\* (p - center) / radius
VSubDiv(p, center, radius) ==
    Vector([k \in 1 .. 3 |-> p.x[k] - center[k] * p.q], p.y, p.d, p.q * radius)

\* -v
VNegate(v) ==
    [v EXCEPT !.x = [k \in 1 .. 3 |-> -v.x[k]], !.y = [k \in 1 .. 3 |-> -v.y[k]]]

\* Vec3::dot of an integer vector and a vector
Dot(u, v) == Scalar(IDot(u, v.x), IDot(u, v.y), v.d, v.q)

\* The vectors u and v are the same point (d is that of either).
VEqual(u, v) ==
    LET d == IF u.d # 0 THEN u.d ELSE v.d
    IN  \A k \in 1 .. 3 :
          SignSurd(u.x[k] * v.q - v.x[k] * u.q, u.y[k] * v.q - v.y[k] * u.q, d) = 0

(***************************************************************************)
(* HitRecord::new, Sphere::hit and HittableList::hit.                      *)
(***************************************************************************)
\* A front-face test with the comparison turned round.
IsFrontFaceReversed(r, outward_normal) == Sign(Dot(r.direction, outward_normal)) > 0

\* Vec3::dot(&r.direction(), &outward_normal) < 0.0
IsFrontFace(r, outward_normal) == Sign(Dot(r.direction, outward_normal)) < 0

HitRecordNew(p, r, outward_normal, t, material) ==
    LET front_face == IsFrontFace(r, outward_normal)
        normal == IF front_face THEN outward_normal ELSE VNegate(outward_normal)
    IN  [p |-> p, normal |-> normal, t |-> t, front_face |-> front_face,
         material |-> material]

Discriminant(s, r) ==
    LET oc == ISub(r.origin, s.center)
        a == IDot(r.direction, r.direction)
        half_b == IDot(oc, r.direction)
        c == IDot(oc, oc) - s.radius * s.radius
    IN  half_b * half_b - a * c

\* (-half_b - root) / a and (-half_b + root) / a
Root(s, r, sign) ==
    LET oc == ISub(r.origin, s.center)
        a == IDot(r.direction, r.direction)
        half_b == IDot(oc, r.direction)
        root == Sqrt(Discriminant(s, r))
    IN  AddDiv(-half_b, IF sign < 0 THEN Negate(root) ELSE root, a)

\* A range test that lets a root equal to t_min through.
InRangeClosed(temp, t_min, t_max) == Less(temp, t_max) /\ ~Less(temp, t_min)

\* A range test that lets a root equal to t_max through.
InRangeUpTo(temp, t_min, t_max) == ~Less(t_max, temp) /\ Less(t_min, temp)

\* temp < t_max && temp > t_min
InRange(temp, t_min, t_max) == Less(temp, t_max) /\ Less(t_min, temp)

\* Some(HitRecord::new(p, r, outward_normal, t, self.material.clone()))
SphereRecord(s, r, t) ==
    LET p == At(r, t)
        outward_normal == VSubDiv(p, s.center, s.radius)
    IN  <<HitRecordNew(p, r, outward_normal, t, s.material)>>

\* Sphere::hit: <<>> is None, <<rec>> is Some(rec).
SphereHit(s, r, t_min, t_max) ==
    IF Discriminant(s, r) > 0
    THEN IF InRange(Root(s, r, -1), t_min, t_max)
         THEN SphereRecord(s, r, Root(s, r, -1))
         ELSE IF InRange(Root(s, r, 1), t_min, t_max)
              THEN SphereRecord(s, r, Root(s, r, 1))
              ELSE <<>>
    ELSE <<>>

\* The inputs: rays from the origin, spheres on and off the axis with
\* positive and negative radius, bounds between 0 and infinity (1/2 stands
\* for a small positive t_min such as the 0.001 of ray_color).
MaxObjects == 2

Directions == {<<0, 0, 1>>, <<0, 1, 1>>, <<0, 0, 2>>}

Centers == {<<0, 0, 0>>, <<0, 0, 3>>, <<0, 1, 3>>, <<0, 0, 4>>}

Radii == {-1, 1, 2}

Bounds ==
    {<<Rational(1, 2), Rational(2, 1)>>, <<Rational(1, 2), Rational(4, 1)>>,
     <<Rational(1, 2), Infinity>>, <<Rational(2, 1), Rational(4, 1)>>,
     <<Rational(2, 1), Infinity>>, <<Rational(0, 1), Infinity>>}

OutwardNormals ==
    {<<0, 0, 1>>, <<0, 0, -1>>, <<0, 1, 0>>, <<0, -1, 1>>, <<0, 0, 0>>}

\* The lists of at most MaxObjects spheres; the k-th has material k.
Scenes ==
    UNION {[1 .. n -> [center : Centers, radius : Radii]] : n \in 0 .. MaxObjects}

InitHit ==
    /\ \E dir \in Directions :
          h_ray = [origin |-> <<0, 0, 0>>, direction |-> dir]
    /\ \E sc \in Scenes :
          h_objects = [k \in DOMAIN sc |->
                          [center |-> sc[k].center, radius |-> sc[k].radius,
                           material |-> k]]
    /\ \E b \in Bounds : h_tmin = b[1] /\ h_tmax = b[2]
    /\ h_k = 0
    /\ h_hit = <<>>
    /\ h_closest = h_tmax
    /\ h_call = <<>>
    /\ h_built = <<>>
    /\ h_pc = "iter"
    /\ \E w \in {MinWidth} : RenderStart(w, ModelSamples, ModelDepth)
    /\ PixelIdle /\ RayIdle /\ MatIdle

HitOnly == UNCHANGED <<renderVars, pixelVars, rayVars, matVars>>

\* An update that keeps the upper bound where it was.
ClosestUnchanged(closest_so_far, new_hit) == closest_so_far

\* closest_so_far = new_hit.t
ClosestAfter(closest_so_far, new_hit) == new_hit.t

\* One step of self.objects.iter().for_each of HittableList::hit.
ListStep ==
    /\ h_pc = "iter"
    /\ h_k < Len(h_objects)
    /\ LET object == h_objects[h_k + 1]
           new_hit == SphereHit(object, h_ray, h_tmin, h_closest)
       IN  /\ h_call' = <<[object |-> object, t_min |-> h_tmin,
                           t_max |-> h_closest, result |-> new_hit]>>
           /\ IF new_hit # <<>>
              THEN /\ h_hit' = new_hit
                   /\ h_closest' = ClosestAfter(h_closest, new_hit[1])
              ELSE UNCHANGED <<h_hit, h_closest>>
    /\ h_k' = h_k + 1
    /\ UNCHANGED <<h_ray, h_objects, h_tmin, h_tmax, h_built, h_pc>>
    /\ HitOnly

\* HittableList::hit returns hit.
ListDone ==
    /\ h_pc = "iter"
    /\ h_k = Len(h_objects)
    /\ h_pc' = "done"
    /\ UNCHANGED <<h_ray, h_objects, h_tmin, h_tmax, h_k, h_hit, h_closest,
                   h_call, h_built>>
    /\ HitOnly

\* HitRecord::new on the ray and an outward normal of the caller's choice.
BuildRecord ==
    /\ h_pc = "iter"
    /\ h_k = 0
    /\ \E n \in OutwardNormals :
          h_built' = <<[outward_normal |-> IVector(n),
                        rec |-> HitRecordNew(At(h_ray, h_tmin), h_ray, IVector(n),
                                             h_tmin, 0)]>>
    /\ h_pc' = "built"
    /\ UNCHANGED <<h_ray, h_objects, h_tmin, h_tmax, h_k, h_hit, h_closest, h_call>>
    /\ HitOnly

NextHit ==
    \/ ListStep
    \/ ListDone
    \/ BuildRecord

SpecHit == InitHit /\ [][NextHit]_vars

(***************************************************************************)
(* Claims about the intersection code.                                     *)
(***************************************************************************)
\* What surface k reports for the ray within the bounds given to the list.
Reported(k) == SphereHit(h_objects[k], h_ray, h_tmin, h_tmax)

\* The surfaces among the first n that report a hit within those bounds.
Reporting(n) == {k \in 1 .. n : Reported(k) # <<>>}

\* C1: the record HittableList::hit holds after the first h_k surfaces, and
\* returns after all of them, has the minimum of the t each of these
\* surfaces reports for the ray in (t_min, t_max); there is none exactly
\* when none of them reports a hit in (t_min, t_max).
C1_NearestHit ==
    h_pc \in {"iter", "done"} =>
        /\ (h_hit = <<>>) <=> (Reporting(h_k) = {})
        /\ h_hit # <<>> =>
              /\ \E k \in Reporting(h_k) : Compare(h_hit[1].t, Reported(k)[1].t) = 0
              /\ \A k \in Reporting(h_k) : ~Less(Reported(k)[1].t, h_hit[1].t)
        /\ h_pc = "done" => h_k = Len(h_objects)

\* C1 witness: a list of two surfaces that both report a hit, the first one
\* strictly nearer, has returned the record of the first.
C1_Witness ==
    /\ h_pc = "done"
    /\ Len(h_objects) = 2
    /\ Reporting(2) = {1, 2}
    /\ Less(Reported(1)[1].t, Reported(2)[1].t)
    /\ h_hit # <<>>
    /\ h_hit[1].material = 1

\* The normal of rec is against the ray.
AgainstRay(rec) == Sign(Dot(h_ray.direction, rec.normal)) <= 0

\* rec keeps outward_normal when front_face is set and holds its negation
\* when not; for a normal that is not zero, front_face is set exactly when
\* the normal of rec is outward_normal.
FaceConvention(rec, outward_normal) ==
    /\ rec.front_face => VEqual(rec.normal, outward_normal)
    /\ ~rec.front_face => VEqual(rec.normal, VNegate(outward_normal))
    /\ ~VEqual(outward_normal, IVector(<<0, 0, 0>>)) =>
          (rec.front_face <=> VEqual(rec.normal, outward_normal))

\* The geometric outward normal of sphere s at the point of rec.
SphereNormal(s, rec) == VSubDiv(At(h_ray, rec.t), s.center, s.radius)

\* C5: every record built by HitRecord::new, for any outward normal, and
\* every record returned by Sphere::hit or held by HittableList::hit, for
\* spheres of positive and negative radius, has dot(ray.direction, normal)
\* <= 0, and front_face tells whether the outward normal was kept.
C5_FrontFace ==
    /\ \A k \in DOMAIN h_built :
          /\ AgainstRay(h_built[k].rec)
          /\ FaceConvention(h_built[k].rec, h_built[k].outward_normal)
    /\ \A k \in DOMAIN h_call :
          h_call[k].result # <<>> =>
              /\ AgainstRay(h_call[k].result[1])
              /\ FaceConvention(h_call[k].result[1],
                                SphereNormal(h_call[k].object, h_call[k].result[1]))
    /\ \A k \in DOMAIN h_hit :
          /\ AgainstRay(h_hit[k])
          /\ FaceConvention(h_hit[k], SphereNormal(h_objects[h_hit[k].material], h_hit[k]))

\* C5 witness: the list has returned the record of a sphere of negative
\* radius whose outward normal pointed along the ray and was flipped.
C5_Witness ==
    /\ h_pc = "done"
    /\ h_hit # <<>>
    /\ h_objects[h_hit[1].material].radius < 0
    /\ ~h_hit[1].front_face
    /\ Sign(Dot(h_ray.direction, h_hit[1].normal)) < 0

\* C8: a call of Sphere::hit returns a hit exactly when the discriminant is
\* strictly positive and a root lies strictly inside (t_min, t_max); its t
\* is then the smallest root strictly inside: the near root if that is in
\* range, else the far root.
C8_SmallestRootInside ==
    \A k \in DOMAIN h_call :
        LET c == h_call[k]
            near == Root(c.object, h_ray, -1)
            far == Root(c.object, h_ray, 1)
            Inside(root) == Less(c.t_min, root) /\ Less(root, c.t_max)
        IN  /\ (c.result # <<>>) <=>
                  (Discriminant(c.object, h_ray) > 0 /\ (Inside(near) \/ Inside(far)))
            /\ c.result # <<>> =>
                  /\ Inside(c.result[1].t)
                  /\ \A root \in {near, far} :
                        Inside(root) => ~Less(root, c.result[1].t)
                  /\ Inside(near) => c.result[1].t = near
                  /\ ~Inside(near) => c.result[1].t = far

\* C8 witness: a call whose near root equals t_min returned the far root.
C8_Witness ==
    \E k \in DOMAIN h_call :
        /\ h_call[k].result # <<>>
        /\ Discriminant(h_call[k].object, h_ray) > 0
        /\ Compare(Root(h_call[k].object, h_ray, -1), h_call[k].t_min) = 0
        /\ h_call[k].result[1].t = Root(h_call[k].object, h_ray, 1)

\* A call with a tangent ray (discriminant 0) has been made, and gave no
\* hit.
C8_TangentSeen ==
    \E k \in DOMAIN h_call :
        Discriminant(h_call[k].object, h_ray) = 0 /\ h_call[k].result = <<>>

\* The surfaces among the first n that report the smallest t.
Nearest(n) ==
    {k \in Reporting(n) :
        \A m \in Reporting(n) : ~Less(Reported(m)[1].t, Reported(k)[1].t)}

\* The first of a non-empty set of positions in the list.
First(S) == CHOOSE k \in S : \A m \in S : k <= m

\* C11: when several of the surfaces seen so far are hit at the same
\* smallest t inside (t_min, t_max), the record HittableList::hit holds,
\* and returns after the last surface, is the record of the one of them
\* that comes first in the list; a record is replaced only by one of a
\* strictly smaller t.
C11_FirstOfTiesWins ==
    (h_pc \in {"iter", "done"} /\ h_hit # <<>>) =>
        /\ Nearest(h_k) # {}
        /\ h_hit[1].material = First(Nearest(h_k))
        /\ h_hit = Reported(First(Nearest(h_k)))
        /\ \A c \in DOMAIN h_call :
              (h_call[c].result # <<>> /\ ~IsInfinity(h_call[c].t_max)) =>
                  Less(h_call[c].result[1].t, h_call[c].t_max)

\* C11 witness: a list of two different surfaces that are hit at the same
\* t has returned the record of the first.
C11_Witness ==
    /\ h_pc = "done"
    /\ Len(h_objects) = 2
    /\ h_objects[1].center # h_objects[2].center
    /\ Reporting(2) = {1, 2}
    /\ Compare(Reported(1)[1].t, Reported(2)[1].t) = 0
    /\ h_hit = Reported(1)
    /\ h_hit # Reported(2)

(***************************************************************************)
(* Claims about the render driver.                                         *)
(***************************************************************************)
RECURSIVE SumOver(_, _)
SumOver(f, S) ==
    IF S = {} THEN 0
    ELSE LET x == CHOOSE y \in S : TRUE IN f[x] + SumOver(f, S \ {x})

\* C2: under every interleaving of the row workers each completed row has
\* sent exactly one notification: no row has sent two, a row is complete
\* exactly when it has sent one, every notification sent is queued or
\* received, and once the rows are collected image_height were sent.
C2_OneNotificationPerRow ==
    /\ \A j \in Rows : /\ sent[j] <= 1
                       /\ (rowSt[j] = "done") <=> (sent[j] = 1)
    /\ SumOver(sent, Rows) = received + Len(chan)
    /\ mpc \in {"printing", "done"} => SumOver(sent, Rows) = image_height

\* C2 witness: a render of at least two rows has ended, the rows having
\* completed in ascending order, and image_height notifications were sent.
C2_Witness ==
    /\ mpc = "done"
    /\ image_height >= 2
    /\ order = [k \in 1 .. image_height |-> k - 1]
    /\ SumOver(sent, Rows) = image_height

\* C3: a finished render has written, after the header, exactly
\* image_width * image_height pixels, rows j = image_height-1 down to 0 and
\* columns i = 0 to image_width-1 within a row, whatever the order in which
\* the rows completed; while printing, whole rows in that order.
C3_OutputOrder ==
    /\ mpc = "done" => Len(stdout) = 1 + image_width * image_height
    /\ mpc \in {"printing", "done"} =>
          /\ Len(stdout) = 1 + image_width * printed
          /\ \A k \in 1 .. (Len(stdout) - 1) :
                /\ stdout[k + 1].i = (k - 1) % image_width
                /\ stdout[k + 1].j = image_height - 1 - ((k - 1) \div image_width)

\* C3 witness: a render of at least two rows has written all its pixels
\* although the rows completed in ascending order, the reverse of the
\* order they are written in.
C3_Witness ==
    /\ mpc = "done"
    /\ image_height >= 2
    /\ order = [k \in 1 .. image_height |-> k - 1]
    /\ Len(stdout) = 1 + image_width * image_height

\* The progress thread has ended with notifications still to be sent.
ConsumerGone == ~ProgressLive /\ SumOver(sent, Rows) < image_height

\* No pixel of the image has been written: stdout holds the header only.
NoImage == image = <<>> /\ printed = 0 /\ Len(stdout) = 1

\* C13: once the progress thread has ended with fewer than image_height
\* notifications sent, no notification is sent any more, a row worker that
\* gets to its send panics, no pixel is ever written, and the render
\* aborts; pixels are written only after every row's send has succeeded.
C13_RenderNeedsConsumer ==
    /\ [](ConsumerGone => (~rxAlive /\ mpc \in {"render", "panicked"} /\ NoImage))
    /\ [](~NoImage => \A j \in Rows : rowSt[j] = "done" /\ sent[j] = 1)
    /\ [][ConsumerGone =>
            /\ sent' = sent
            /\ \A j \in Rows :
                  (rowSt[j] = "computed" /\ rowSt'[j] # "computed") =>
                      rowSt'[j] = "panicked"]_vars
    /\ (ConsumerGone ~> (mpc = "panicked" /\ NoImage))

\* C13 witness: the progress thread panicked on its stderr write after some
\* but not all rows had sent; a later row's send failed and the render has
\* aborted with nothing but the header written.
C13_Witness ==
    /\ ppc = "panicked"
    /\ 0 < received
    /\ SumOver(sent, Rows) < image_height
    /\ \E j \in Rows : rowSt[j] = "panicked"
    /\ \E j \in Rows : rowSt[j] = "done"
    /\ mpc = "panicked"
    /\ NoImage

\* C6: a render with a zero or negative image width, image height,
\* samples-per-pixel or max bounce depth is rejected before any pixel is
\* computed: no scanline is computed and the render never gets to print.
C6_ParamsValidated ==
    (image_width <= 0 \/ image_height <= 0 \/ samples_per_pixel <= 0
        \/ max_depth <= 0)
    => /\ \A j \in Rows : rowSt[j] = "pending"
       /\ mpc = "render"

\* C7: the remaining-scanlines value starts from image_height, changes only
\* by a decrement of exactly 1 on a received notification, and under fair
\* scheduling eventually is 0 with the progress thread stopped.
C7_ProgressReachesZero ==
    /\ scanlines_remaining = image_height
    /\ [][\/ scanlines_remaining' = scanlines_remaining
          \/ /\ scanlines_remaining' = scanlines_remaining - 1
             /\ received' = received + 1]_vars
    /\ <>(scanlines_remaining = 0 /\ ppc = "exited")

\* The safety part of C7 alone.
C7_Monotone ==
    [][\/ scanlines_remaining' = scanlines_remaining
       \/ /\ scanlines_remaining' = scanlines_remaining - 1
          /\ received' = received + 1]_vars

====
